---- MODULE Spec2Model ----
(***************************************************************************)
(* The sales feature pipeline of q5-dataeng-forecasting-features/solution.py *)
(* (DataLoader, FeatureCalculator, WMAPECalculator, DataProcessor.process). *)
(*                                                                         *)
(* Tables are sequences of records, in the row order pandas keeps.  A      *)
(* missing value (NaN) of a lag column is the empty sequence <<>>, a       *)
(* present value v is <<v>>.  Rolling means are rationals with a           *)
(* denominator in 1..7; they are stored exactly, multiplied by MAScale     *)
(* (the least common multiple of 1..7).  A WMAPE is the exact fraction     *)
(* num/den; den = 0 is what float division turns into NaN (0/0) or inf     *)
(* (x/0).  Floating-point rounding is not modelled.                        *)
(***************************************************************************)
EXTENDS Integers, Sequences, FiniteSets, TLC

VARIABLES pc, sales, product, brand, store, min_date, max_date, top_n,
          sales_df, feature_df, features_csv, wmape_df, mapes_csv

vars == <<pc, sales, product, brand, store, min_date, max_date, top_n,
          sales_df, feature_df, features_csv, wmape_df, mapes_csv>>

inputs == <<sales, product, brand, store, min_date, max_date, top_n>>

-----------------------------------------------------------------------------
(* Bounds of the explored inputs *)

NumDays == 9
MaxShuffle == 2
MaxTop == 2

Products == {1, 2, 3}
Patterns == {"ramp", "zero", "drop"}

(* Program constants *)
Window == 7
Lag == 7
MAScale == 2 * 2 * 3 * 5 * 7

-----------------------------------------------------------------------------
(* Generic helpers *)

RECURSIVE SumOver(_, _)
SumOver(f, S) ==
    IF S = {} THEN 0
    ELSE LET x == CHOOSE y \in S : TRUE IN f[x] + SumOver(f, S \ {x})

RECURSIVE Flatten(_)
Flatten(ss) == IF ss = <<>> THEN <<>> ELSE Head(ss) \o Flatten(Tail(ss))

(* The sequence f itself, evaluated once into an explicit tuple *)
AsSeq(f) == SubSeq(f, 1, Len(f))

Abs(x) == IF x < 0 THEN -x ELSE x

Min(a, b) == IF a <= b THEN a ELSE b

(* Lexicographic order on integer tuples of equal length *)
RECURSIVE LexLessFrom(_, _, _)
LexLessFrom(a, b, k) ==
    IF k > Len(a) THEN FALSE
    ELSE IF a[k] # b[k] THEN a[k] < b[k]
    ELSE LexLessFrom(a, b, k + 1)

LexLess(a, b) == LexLessFrom(a, b, 1)

-----------------------------------------------------------------------------
(* DataLoader.load_data: three inner merges, left row order kept, one      *)
(* output row per matching right row.                                      *)

MergeProduct(l, r) ==
    Flatten(AsSeq([i \in 1..Len(l) |->
        LET m == SelectSeq(r, LAMBDA x : x.id = l[i].product)
        IN  AsSeq([j \in 1..Len(m) |->
                [date |-> l[i].date, product |-> l[i].product, store |-> l[i].store,
                 quantity |-> l[i].quantity, id |-> m[j].id, brand |-> m[j].brand]])]))

MergeBrand(l, r) ==
    Flatten(AsSeq([i \in 1..Len(l) |->
        LET m == SelectSeq(r, LAMBDA x : x.name = l[i].brand)
        IN  AsSeq([j \in 1..Len(m) |->
                [date |-> l[i].date, product |-> l[i].product, store |-> l[i].store,
                 quantity |-> l[i].quantity, id |-> l[i].id, brand |-> l[i].brand,
                 id_brand |-> m[j].id, name |-> m[j].name]])]))

(* A faulty variant of the store merge: a left join, which keeps a sales   *)
(* row that has no store                                                   *)
MergeStoreLeft(l, r) ==
    Flatten(AsSeq([i \in 1..Len(l) |->
        LET m == SelectSeq(r, LAMBDA x : x.id = l[i].store)
            row(v) == [date |-> l[i].date, product |-> l[i].product, store |-> l[i].store,
                       quantity |-> l[i].quantity, id |-> l[i].id, brand |-> l[i].brand,
                       id_brand |-> l[i].id_brand, name |-> l[i].name, id_store |-> v]
        IN  IF m = <<>> THEN <<row(<<>>)>>
            ELSE AsSeq([j \in 1..Len(m) |-> row(m[j].id)])]))

MergeStore(l, r) ==
    Flatten(AsSeq([i \in 1..Len(l) |->
        LET m == SelectSeq(r, LAMBDA x : x.id = l[i].store)
        IN  AsSeq([j \in 1..Len(m) |->
                [date |-> l[i].date, product |-> l[i].product, store |-> l[i].store,
                 quantity |-> l[i].quantity, id |-> l[i].id, brand |-> l[i].brand,
                 id_brand |-> l[i].id_brand, name |-> l[i].name,
                 id_store |-> m[j].id]])]))

load_data(s, p, b, st) == MergeStore(MergeBrand(MergeProduct(s, p), b), st)

(* DataProcessor.process, line 109: the inclusive date filter *)
DateFilter(df, lo, hi) == SelectSeq(df, LAMBDA x : x.date >= lo /\ x.date <= hi)

-----------------------------------------------------------------------------
(* FeatureCalculator.compute_features.  groupby keeps each group's rows in *)
(* the frame's row order; rolling and shift work on that order.            *)

(* The position of each row within its group, counted in row order *)
GroupPos(key) ==
    AsSeq([i \in 1..Len(key) |-> Cardinality({j \in 1..i : key[j] = key[i]})])

(* x.rolling(7, min_periods=1).mean() within the group, times MAScale *)
RollingMean(key, pos, val, i) ==
    LET w == {j \in 1..i : key[j] = key[i] /\ pos[j] > pos[i] - Window}
    IN  (SumOver(val, w) * MAScale) \div Cardinality(w)

(* groupby(...).shift(7) *)
Shift(key, pos, val, i) ==
    LET s == {j \in 1..i : key[j] = key[i] /\ pos[j] = pos[i] - Lag}
    IN  IF s = {} THEN <<>> ELSE <<val[CHOOSE j \in s : TRUE]>>

(* groupby(...)[col].transform("sum") *)
GroupSum(key, val, i) == SumOver(val, {j \in DOMAIN key : key[j] = key[i]})

ProductKey(df) == AsSeq([i \in 1..Len(df) |-> <<df[i].product, df[i].store>>])
BrandKey(df) == AsSeq([i \in 1..Len(df) |-> <<df[i].id_brand, df[i].store>>])
BrandDateKey(df) == AsSeq([i \in 1..Len(df) |-> <<df[i].id_brand, df[i].store, df[i].date>>])
StoreKey(df) == AsSeq([i \in 1..Len(df) |-> <<df[i].store>>])
StoreDateKey(df) == AsSeq([i \in 1..Len(df) |-> <<df[i].store, df[i].date>>])

sales_product(df) == AsSeq([i \in 1..Len(df) |-> df[i].quantity])

(* A faulty variant of sales_brand: the total taken over every store *)
sales_brand_any_store(df) ==
    LET k == AsSeq([i \in 1..Len(df) |-> <<df[i].id_brand, df[i].date>>])
        v == sales_product(df)
    IN  AsSeq([i \in 1..Len(df) |-> GroupSum(k, v, i)])

sales_brand(df) ==
    LET k == BrandDateKey(df)
        v == sales_product(df)
    IN  AsSeq([i \in 1..Len(df) |-> GroupSum(k, v, i)])

sales_store(df) ==
    LET k == StoreDateKey(df)
        v == sales_product(df)
    IN  AsSeq([i \in 1..Len(df) |-> GroupSum(k, v, i)])

compute_features(df) ==
    LET sp == sales_product(df)
        sb == sales_brand(df)
        ss == sales_store(df)
        kp == ProductKey(df)
        kb == BrandKey(df)
        ks == StoreKey(df)
        pp == GroupPos(kp)
        pb == GroupPos(kb)
        ps == GroupPos(ks)
    IN  AsSeq([i \in 1..Len(df) |->
            [product_id |-> df[i].product, store_id |-> df[i].store,
             brand_id |-> df[i].id_brand, date |-> df[i].date,
             sales_product |-> sp[i],
             MA7_P |-> RollingMean(kp, pp, sp, i), LAG7_P |-> Shift(kp, pp, sp, i),
             sales_brand |-> sb[i],
             MA7_B |-> RollingMean(kb, pb, sb, i), LAG7_B |-> Shift(kb, pb, sb, i),
             sales_store |-> ss[i],
             MA7_S |-> RollingMean(ks, ps, ss, i), LAG7_S |-> Shift(ks, ps, ss, i)]])

(* sort_values(by=[product_id, brand_id, store_id, date]): a stable sort *)
FeatureSortKey(r) == <<r.product_id, r.brand_id, r.store_id, r.date>>

(* The rows of df in the order of rank, a bijection onto 1..Len(df) *)
Permute(df, rank) ==
    AsSeq([k \in 1..Len(df) |-> df[CHOOSE i \in 1..Len(df) : rank[i] = k]])

StableRank(key) ==
    AsSeq([i \in 1..Len(key) |->
        Cardinality({j \in 1..Len(key) : LexLess(key[j], key[i])
                                         \/ (key[j] = key[i] /\ j < i)}) + 1])

sort_features(df) ==
    Permute(df, StableRank(AsSeq([i \in 1..Len(df) |-> FeatureSortKey(df[i])])))

-----------------------------------------------------------------------------
(* WMAPECalculator.compute_wmape *)

(* dropna(): of the feature columns only the three lags can be missing *)
Complete(r) == r.LAG7_P # <<>> /\ r.LAG7_B # <<>> /\ r.LAG7_S # <<>>

dropna(df) == SelectSeq(df, Complete)

(* abs(sales_product - MA7_P), times MAScale *)
abs_error(r) == Abs(r.sales_product * MAScale - r.MA7_P)

GroupKey(r) == <<r.product_id, r.store_id, r.brand_id>>

(* abs_error.sum() / sales_product.sum() of one group, as a fraction *)
GroupWmape(df, k) ==
    LET g == {i \in 1..Len(df) : GroupKey(df[i]) = k}
    IN  [num |-> SumOver(AsSeq([i \in 1..Len(df) |-> abs_error(df[i])]), g),
         den |-> MAScale * SumOver(AsSeq([i \in 1..Len(df) |-> df[i].sales_product]), g)]

(* groupby(...).apply(...).reset_index(name="WMAPE"): one row per group,   *)
(* groups in ascending key order                                           *)
compute_wmape(fdf) ==
    LET df == dropna(fdf)
        keys == {GroupKey(df[i]) : i \in 1..Len(df)}
        rank == [k \in keys |-> Cardinality({j \in keys : LexLess(j, k)}) + 1]
    IN  AsSeq([n \in 1..Cardinality(keys) |->
            LET k == CHOOSE x \in keys : rank[x] = n
            IN  [product_id |-> k[1], store_id |-> k[2], brand_id |-> k[3],
                 WMAPE |-> GroupWmape(df, k)]])

(* On an empty frame groupby.apply returns a DataFrame, whose reset_index  *)
(* takes no name argument: line 88 raises TypeError.                       *)
WmapeRaises(fdf) == dropna(fdf) = <<>>

IsNaN(w) == w.den = 0 /\ w.num = 0
IsInf(w) == w.den = 0 /\ w.num # 0
IsFinite(w) == w.den # 0

(* a > b as floats; never true of a NaN *)
Greater(a, b) ==
    /\ ~IsNaN(a) /\ ~IsNaN(b)
    /\ \/ IsInf(a) /\ IsFinite(b)
       \/ IsFinite(a) /\ IsFinite(b) /\ a.num * b.den > b.num * a.den

(* sort_values(by="WMAPE", ascending=False) with the default kind,         *)
(* quicksort, which is not a stable sort: rows of equal WMAPE may come out *)
(* in any order.  NaN rows go last, in their original order.               *)
IsDescOrder(df, p) ==
    /\ \A i, j \in 1..Len(df) : i < j =>
          /\ ~Greater(df[p[j]].WMAPE, df[p[i]].WMAPE)
          /\ IsNaN(df[p[i]].WMAPE) => IsNaN(df[p[j]].WMAPE)
          /\ IsNaN(df[p[i]].WMAPE) => p[i] < p[j]

SortOrders(df) ==
    {p \in [1..Len(df) -> 1..Len(df)] :
        /\ \A i, j \in 1..Len(df) : i # j => p[i] # p[j]
        /\ IsDescOrder(df, p)}

(* The rows of df in the order p: row p[i] comes i-th *)
Permuted(df, p) == AsSeq([i \in 1..Len(df) |-> df[p[i]]])

(* .head(n) *)
head(df, n) == SubSeq(df, 1, Min(n, Len(df)))

-----------------------------------------------------------------------------
(* Inputs *)

Quantity(pattern, d) ==
    CASE pattern = "ramp" -> d
      [] pattern = "zero" -> 0
      [] pattern = "drop" -> IF d <= Window THEN 1 ELSE 0

(* One row per (date, product) at store 1 in date order, after one row of  *)
(* product 1 at store 2                                                    *)
BaseSales(pat) ==
    <<[date |-> 1, product |-> 1, store |-> 2, quantity |-> 1]>> \o
    Flatten([d \in 1..NumDays |->
        [p \in 1..Cardinality(Products) |->
            [date |-> d, product |-> p, store |-> 1,
             quantity |-> Quantity(pat[p], d)]]])

(* The row orders tried: as is, reversed, rows k and n+1-k exchanged *)
Shuffle(rows, k) ==
    LET n == Len(rows)
    IN  CASE k = 0 -> rows
          [] k = 1 -> AsSeq([i \in 1..n |-> rows[n + 1 - i]])
          [] OTHER -> AsSeq([i \in 1..n |-> IF i = k THEN rows[n + 1 - k]
                                            ELSE IF i = n + 1 - k THEN rows[k]
                                            ELSE rows[i]])

FullProduct == <<[id |-> 1, brand |-> "A"], [id |-> 2, brand |-> "A"],
                 [id |-> 3, brand |-> "B"]>>
FullBrand == <<[name |-> "A", id |-> 10], [name |-> "B", id |-> 20]>>
FullStore == <<[id |-> 1], [id |-> 2]>>

ProductTables == {FullProduct, SubSeq(FullProduct, 1, 2), <<FullProduct[1]>> \o FullProduct}
BrandTables == {FullBrand, <<FullBrand[2]>>}
StoreTables == {FullStore, <<FullStore[1]>>}

(* The reference tables, or one of them with a row missing or repeated *)
DimTables ==
    {t \in ProductTables \X BrandTables \X StoreTables :
        Cardinality({k \in 1..3 : t[k] # <<FullProduct, FullBrand, FullStore>>[k]}) <= 1}

DateRanges == {<<1, NumDays>>, <<2, NumDays>>, <<1, NumDays - 1>>,
               <<NumDays + 1, NumDays + 1>>}

-----------------------------------------------------------------------------
(* DataProcessor.process, step by step *)

Init ==
    /\ pc = "start"
    /\ \E pat \in [Products -> Patterns], k \in 0..MaxShuffle :
          sales = Shuffle(BaseSales(pat), k)
    /\ \E t \in DimTables : product = t[1] /\ brand = t[2] /\ store = t[3]
    /\ \E r \in DateRanges : min_date = r[1] /\ max_date = r[2]
    /\ top_n \in 1..MaxTop
    /\ sales_df = <<>>
    /\ feature_df = <<>>
    /\ features_csv = <<>>
    /\ wmape_df = <<>>
    /\ mapes_csv = <<>>

(* lines 107-108 *)
Load ==
    /\ pc = "start"
    /\ sales_df' = load_data(sales, product, brand, store)
    /\ pc' = "loaded"
    /\ UNCHANGED <<inputs, feature_df, features_csv, wmape_df, mapes_csv>>

(* line 109 *)
Filter ==
    /\ pc = "loaded"
    /\ sales_df' = DateFilter(sales_df, min_date, max_date)
    /\ pc' = "filtered"
    /\ UNCHANGED <<inputs, feature_df, features_csv, wmape_df, mapes_csv>>

(* lines 112-113 *)
Features ==
    /\ pc = "filtered"
    /\ feature_df' = compute_features(sales_df)
    /\ pc' = "computed"
    /\ UNCHANGED <<inputs, sales_df, features_csv, wmape_df, mapes_csv>>

(* lines 114-115 *)
WriteFeatures ==
    /\ pc = "computed"
    /\ feature_df' = sort_features(feature_df)
    /\ features_csv' = feature_df'
    /\ pc' = "features_written"
    /\ UNCHANGED <<inputs, sales_df, wmape_df, mapes_csv>>

(* lines 119-120 *)
Score ==
    /\ pc = "features_written"
    /\ ~WmapeRaises(feature_df)
    /\ wmape_df' = compute_wmape(feature_df)
    /\ pc' = "scored"
    /\ UNCHANGED <<inputs, sales_df, feature_df, features_csv, mapes_csv>>

(* lines 119-120, the TypeError: process ends with features.csv written *)
ScoreRaises ==
    /\ pc = "features_written"
    /\ WmapeRaises(feature_df)
    /\ pc' = "failed"
    /\ UNCHANGED <<inputs, sales_df, feature_df, features_csv, wmape_df, mapes_csv>>

(* lines 121-122 *)
WriteMapes ==
    /\ pc = "scored"
    /\ \E p \in SortOrders(wmape_df) :
          /\ wmape_df' = head(Permuted(wmape_df, p), top_n)
          /\ mapes_csv' = wmape_df'
    /\ pc' = "done"
    /\ UNCHANGED <<inputs, sales_df, feature_df, features_csv>>

Next == Load \/ Filter \/ Features \/ WriteFeatures \/ Score \/ ScoreRaises \/ WriteMapes

Spec == Init /\ [][Next]_vars

-----------------------------------------------------------------------------
(* Vocabulary of the properties *)

FeaturesReady == pc \in {"computed", "features_written", "scored", "failed", "done"}

Rows(df) == 1..Len(df)

SameProductStore(a, b) == a.product_id = b.product_id /\ a.store_id = b.store_id
SameBrandStore(a, b) == a.brand_id = b.brand_id /\ a.store_id = b.store_id
SameStoreDate(a, b) == a.store_id = b.store_id /\ a.date = b.date

(* The rows of i's (product_id, store_id) group, and whether their dates   *)
(* are pairwise distinct, so that the chronological order is a total order *)
ProductGroup(df, i) == {j \in Rows(df) : SameProductStore(df[j], df[i])}
DistinctDates(df, g) == \A j, k \in g : j # k => df[j].date # df[k].date

(* The chronological rank of row i within the group g *)
ChronRank(df, g, i) == Cardinality({j \in g : df[j].date <= df[i].date})

-----------------------------------------------------------------------------
(* C1: in every (product_id, store_id) group, whatever the order of the    *)
(* input rows, the k-th row in ascending date order has LAG7_P equal to    *)
(* the sales_product of the (k-7)-th row in date order when k > 7, and     *)
(* LAG7_P absent when k <= 7.                                              *)
C1_Lag7PChronological ==
    FeaturesReady =>
        \A i \in Rows(feature_df) :
            LET g == ProductGroup(feature_df, i)
                k == ChronRank(feature_df, g, i)
            IN  DistinctDates(feature_df, g) =>
                    IF k > 7
                    THEN \E j \in g : /\ ChronRank(feature_df, g, j) = k - 7
                                      /\ feature_df[i].LAG7_P = <<feature_df[j].sales_product>>
                    ELSE feature_df[i].LAG7_P = <<>>

(* MA7_P is the mean over the row and the up to 6 rows before it in date  *)
(* order                                                                  *)
C2_MeanChronological ==
    FeaturesReady =>
        \A i \in Rows(feature_df) :
            LET g == ProductGroup(feature_df, i)
                k == ChronRank(feature_df, g, i)
                w == {j \in g : ChronRank(feature_df, g, j) \in (k - 6)..k}
            IN  DistinctDates(feature_df, g) =>
                    feature_df[i].MA7_P * Cardinality(w) =
                        MAScale * SumOver([j \in Rows(feature_df) |->
                                              feature_df[j].sales_product], w)

(* The MA7_P column of the features of df *)
MA7_P_of(df) ==
    LET kp == ProductKey(df)
        pp == GroupPos(kp)
        sp == sales_product(df)
    IN  [i \in Rows(df) |-> RollingMean(kp, pp, sp, i)]

(* One more unit sold in row j changes MA7_P of no row of an earlier date  *)
(* and of no row of another group                                         *)
C2_NoLookAhead ==
    pc = "computed" =>
        \A j \in Rows(sales_df) :
            LET alt == [sales_df EXCEPT ![j].quantity = @ + 1]
                ma == MA7_P_of(alt)
            IN  \A i \in Rows(sales_df) :
                    (\/ sales_df[i].date < sales_df[j].date
                     \/ sales_df[i].product # sales_df[j].product
                     \/ sales_df[i].store # sales_df[j].store)
                    => ma[i] = feature_df[i].MA7_P

(* C2: MA7_P is never absent and is the mean of sales_product over the row *)
(* and up to the 6 chronologically preceding rows of its group; a change   *)
(* of the quantity of a row with a later date, or of a row of another      *)
(* group, leaves it unchanged.                                             *)
C2_MA7P ==
    /\ C2_MeanChronological
    /\ C2_NoLookAhead

(* The dates on which i's brand sold at i's store *)
BrandDates(df, i) == {df[j].date : j \in {x \in Rows(df) : SameBrandStore(df[x], df[i])}}

(* The brand-level total of i's brand and store on date d *)
BrandTotal(df, i, d) ==
    LET j == CHOOSE x \in Rows(df) : SameBrandStore(df[x], df[i]) /\ df[x].date = d
    IN  df[j].sales_brand

(* C3: MA7_B and LAG7_B treat the brand-level daily totals of each         *)
(* (brand_id, store_id) group as one observation per date: LAG7_B is the   *)
(* sales_brand of the 7th-previous date, MA7_B the mean of sales_brand     *)
(* over the current and up to 6 preceding dates, and rows sharing          *)
(* (brand_id, store_id, date) carry the same MA7_B and LAG7_B.             *)
C3_BrandDaily ==
    FeaturesReady =>
        \A i \in Rows(feature_df) :
            LET ds == BrandDates(feature_df, i)
                rk(d) == Cardinality({e \in ds : e <= d})
                k == rk(feature_df[i].date)
                w == {d \in ds : rk(d) \in (k - 6)..k}
                tot == [d \in ds |-> BrandTotal(feature_df, i, d)]
            IN  /\ feature_df[i].MA7_B * Cardinality(w) = MAScale * SumOver(tot, w)
                /\ IF k > 7
                   THEN \E d \in ds : rk(d) = k - 7 /\ feature_df[i].LAG7_B = <<tot[d]>>
                   ELSE feature_df[i].LAG7_B = <<>>
                /\ \A j \in Rows(feature_df) :
                      (SameBrandStore(feature_df[j], feature_df[i])
                       /\ feature_df[j].date = feature_df[i].date)
                      => /\ feature_df[j].MA7_B = feature_df[i].MA7_B
                         /\ feature_df[j].LAG7_B = feature_df[i].LAG7_B

(* C4 as stated: for every (store_id, date), the sum of sales_brand over   *)
(* all product rows at that (store_id, date) equals their sales_store.     *)
C4_SumOverRows ==
    FeaturesReady =>
        \A i \in Rows(feature_df) :
            SumOver([j \in Rows(feature_df) |-> feature_df[j].sales_brand],
                    {j \in Rows(feature_df) : SameStoreDate(feature_df[j], feature_df[i])})
            = feature_df[i].sales_store

(* C4, amended: for every (store_id, date), the sum of sales_brand taken   *)
(* once per brand present at that (store_id, date) equals the sales_store  *)
(* carried by the rows there; rows of one brand there agree on sales_brand *)
C4_SumOverBrands ==
    FeaturesReady =>
        \A i \in Rows(feature_df) :
            LET here == {j \in Rows(feature_df) : SameStoreDate(feature_df[j], feature_df[i])}
                brands == {feature_df[j].brand_id : j \in here}
                of == [b \in brands |->
                          feature_df[CHOOSE j \in here : feature_df[j].brand_id = b].sales_brand]
            IN  /\ \A j \in here : feature_df[j].sales_brand = of[feature_df[j].brand_id]
                /\ \A j \in here : feature_df[j].sales_store = feature_df[i].sales_store
                /\ SumOver(of, brands) = feature_df[i].sales_store

(* A store and date with two products of one brand, a second brand, and    *)
(* another store selling on the same date                                  *)
C4_Witness ==
    /\ pc = "features_written"
    /\ \E i, j, k, m \in Rows(feature_df) :
          /\ i # j
          /\ SameStoreDate(feature_df[i], feature_df[j])
          /\ SameStoreDate(feature_df[i], feature_df[k])
          /\ feature_df[i].brand_id = feature_df[j].brand_id
          /\ feature_df[i].brand_id # feature_df[k].brand_id
          /\ feature_df[m].date = feature_df[i].date
          /\ feature_df[m].store_id # feature_df[i].store_id
          /\ feature_df[i].sales_product > 0
          /\ feature_df[k].sales_product > 0

(* C5: no not-a-number or infinite WMAPE reaches the scored table or       *)
(* mapes.csv.                                                              *)
C5_NoUndefinedWmape ==
    /\ \A i \in Rows(wmape_df) : wmape_df[i].WMAPE.den # 0
    /\ \A i \in Rows(mapes_csv) : mapes_csv[i].WMAPE.den # 0

-----------------------------------------------------------------------------
(* A sales row has a matching product id, brand name and store id *)
HasMatch(r) ==
    /\ \E p \in Rows(product) :
          /\ product[p].id = r.product
          /\ \E b \in Rows(brand) : brand[b].name = product[p].brand
    /\ \E t \in Rows(store) : store[t].id = r.store

(* The row r of the sales table is a row of the table df *)
AppearsInSales(r, df) ==
    \E j \in Rows(df) : df[j].date = r.date /\ df[j].product = r.product
                         /\ df[j].store = r.store
AppearsInFeatures(r, df) ==
    \E j \in Rows(df) : df[j].date = r.date /\ df[j].product_id = r.product
                         /\ df[j].store_id = r.store

MergeCounts ==
    /\ pc = "loaded" =>
          /\ Len(sales_df) <= Len(sales)
          /\ Len(sales_df) = Len(sales) <=> \A i \in Rows(sales) : HasMatch(sales[i])
    /\ \A i \in Rows(sales) :
          ~HasMatch(sales[i]) =>
              /\ ~AppearsInSales(sales[i], sales_df)
              /\ ~AppearsInFeatures(sales[i], feature_df)
              /\ ~AppearsInFeatures(sales[i], features_csv)

(* No two rows of a dimension table share the key it is joined on *)
UniqueKeys ==
    /\ \A i, j \in Rows(product) : i # j => product[i].id # product[j].id
    /\ \A i, j \in Rows(brand) : i # j => brand[i].name # brand[j].name
    /\ \A i, j \in Rows(store) : i # j => store[i].id # store[j].id

(* C6 as stated: for every combination of tables, the merged table has at  *)
(* most as many rows as the sales table, exactly as many iff every sales   *)
(* row matches on all three keys, and an unmatched row is in no output.    *)
C6_MergeAnyTables == MergeCounts

(* C6, amended: the same, for product, brand and store tables in which no  *)
(* two rows share the join key (product id, brand name, store id).         *)
C6_MergeUniqueKeys == UniqueKeys => MergeCounts

(* The merge has dropped some, but not all, rows of the sales table *)
C6_Witness ==
    /\ pc = "loaded"
    /\ UniqueKeys
    /\ \E i \in Rows(sales) : ~HasMatch(sales[i])
    /\ 0 < Len(sales_df) /\ Len(sales_df) < Len(sales)

(* C7: the pipeline run on the same sales rows in another order yields the *)
(* same feature table and the same scored table, row for row.              *)
C7_ShuffleInvariant ==
    \A k \in 0..MaxShuffle :
        LET f == sort_features(compute_features(DateFilter(
                     load_data(Shuffle(sales, k), product, brand, store),
                     min_date, max_date)))
        IN  /\ pc \in {"features_written", "scored", "failed", "done"} => features_csv = f
            /\ pc = "failed" => WmapeRaises(f)
            /\ pc = "scored" => ~WmapeRaises(f) /\ wmape_df = compute_wmape(f)

(* C8: the scorer output has min(N, G) rows, the N highest WMAPE values in *)
(* descending order, rows of equal WMAPE in their order in the scored      *)
(* table.                                                                  *)
C8_StableTopN ==
    pc = "done" =>
        LET scored == compute_wmape(feature_df)
        IN  /\ Len(mapes_csv) = Min(top_n, Len(scored))
            /\ \E p \in SortOrders(scored) :
                  /\ \A i, j \in Rows(scored) :
                        (i < j /\ ~Greater(scored[p[i]].WMAPE, scored[p[j]].WMAPE))
                        => p[i] < p[j]
                  /\ mapes_csv = head(Permuted(scored, p), top_n)

(* Every feature of the row is present *)
Present(r) == r.LAG7_P # <<>> /\ r.LAG7_B # <<>> /\ r.LAG7_S # <<>>

(* C9: compute_wmape emits exactly one row per (product_id, store_id,      *)
(* brand_id) group with at least one feature row without a missing value   *)
(* (an empty table when there is none); its WMAPE is                       *)
(* sum(|sales_product - MA7_P|) / sum(sales_product) over the group's rows *)
(* with every feature present; a row with a missing feature, in particular *)
(* each of the first 7 rows of a (product_id, store_id) group in the       *)
(* feature table, is in neither sum.                                       *)
C9_WmapePerGroup ==
    /\ pc # "failed"
    /\ pc = "scored" =>
        LET ok == {i \in Rows(feature_df) : Present(feature_df[i])}
            keyOf(r) == <<r.product_id, r.store_id, r.brand_id>>
            keys == {keyOf(feature_df[i]) : i \in ok}
        IN  /\ Len(wmape_df) = Cardinality(keys)
            /\ \A k \in keys :
                  Cardinality({n \in Rows(wmape_df) : keyOf(wmape_df[n]) = k}) = 1
            /\ \A n \in Rows(wmape_df) :
                  LET g == {i \in ok : keyOf(feature_df[i]) = keyOf(wmape_df[n])}
                  IN  /\ wmape_df[n].WMAPE.num =
                            SumOver([i \in Rows(feature_df) |->
                                        Abs(feature_df[i].sales_product * MAScale
                                            - feature_df[i].MA7_P)], g)
                      /\ wmape_df[n].WMAPE.den =
                            MAScale * SumOver([i \in Rows(feature_df) |->
                                                  feature_df[i].sales_product], g)
            /\ \A i \in Rows(feature_df) :
                  Cardinality({j \in 1..i : SameProductStore(feature_df[j], feature_df[i])}) <= 7
                      => i \notin ok

(* C10: the feature table holds one row for exactly the merged rows with   *)
(* min_date <= date <= max_date, rows outside the range contribute to no   *)
(* feature, and when the range excludes every row the run does not fail    *)
(* and yields an empty feature table.                                      *)
C10_DateRange ==
    LET m == load_data(sales, product, brand, store)
        inside == SelectSeq(m, LAMBDA r : min_date <= r.date /\ r.date <= max_date)
    IN  /\ pc = "computed" => feature_df = compute_features(inside)
        /\ FeaturesReady =>
              /\ Len(feature_df) = Len(inside)
              /\ \A i \in Rows(feature_df) :
                    min_date <= feature_df[i].date /\ feature_df[i].date <= max_date
        /\ inside = <<>> =>
              /\ pc # "failed"
              /\ FeaturesReady => feature_df = <<>>

====
